---- MODULE Spec2Model ----
(***************************************************************************)
(* Booking / assignment engine of the Congregation Volunteer Scheduler.    *)
(*                                                                         *)
(* The persisted booking array (localStorage key cvsa_bookings) is shared  *)
(* by every browser tab of the application.  Each tab runs the volunteer   *)
(* dashboard (volunteer-dashboard.js), the admin assignments grid          *)
(* (admin-assignments.js) and the admin reports (admin-reports.js); every  *)
(* DOM event handler is one action.  A handler that opens a confirmation   *)
(* dialog ends there; the dialog's onConfirm callback is the next action   *)
(* of that tab and works on what the first handler captured.               *)
(*                                                                         *)
(* Time is counted in minutes since local midnight of the one calendar     *)
(* date of the model (Date.now() and slotStartDateTime are milliseconds in *)
(* the source; every comparison is scaled by 60000).                       *)
(***************************************************************************)
EXTENDS Integers, Sequences, FiniteSets, TLC

----------------------------------------------------------------------------
(* Bounds of the model *)

\* number of booking records that may be created in one behaviour
MaxBookings == 2
\* number of clock ticks in one behaviour
MaxTicks == 1
\* number of locations added through the form in one behaviour
MaxLocations == 1
\* number of slots created through the schedule forms in one behaviour
MaxSlots == 1
\* length of one clock tick, minutes
TickMinutes == 5
\* the clock starts at 13:30
StartNow == (13 * 60) + 30

----------------------------------------------------------------------------
(* Values *)

\* JavaScript undefined / null for a string-valued field
Undefined == "undefined"
\* an absent numeric field (startHour, endHour, checkedInAt)
NoNumber == -1

\* browser tabs sharing one localStorage
Tabs == {"tabA", "tabB"}

\* accounts that can sign in (auth.js DEMO_USERS) and book for themselves
Users == {"volunteer", "elder"}

displayNameOf(u) ==
  IF u = "volunteer" THEN "Volunteer Demo" ELSE "Elder Demo"

\* volunteer directory (cvsa_volunteers), localstore.js DEMO_VOLUNTEERS
DEMO_VOLUNTEERS ==
  << [id |-> "vol-jose",  name |-> "Jose Perez",   email |-> "jose@example.com"],
     [id |-> "vol-maria", name |-> "Maria Santos", email |-> "maria@example.com"] >>

VolIds == { DEMO_VOLUNTEERS[i].id : i \in DOMAIN DEMO_VOLUNTEERS }

\* the entry the Add Volunteer form stores for the person who signs in as
\* "volunteer": id 'vol-' + uid(), name from first and last name
newVol ==
  [id |-> "vol-demo", name |-> "Volunteer Demo", email |-> "volunteer@example.com"]

\* loadVolunteers: cvsa_volunteers, the seed and the added entry
loadVolunteers == Append(DEMO_VOLUNTEERS, newVol)

\* findVolunteerById: the directory entry with that id
findVolunteerById(id) ==
  loadVolunteers[CHOOSE i \in DOMAIN loadVolunteers : loadVolunteers[i].id = id]

\* String.prototype.toLowerCase on the strings of the model
toLowerCase(s) ==
  CASE s = "Jose Perez"     -> "jose perez"
    [] s = "Maria Santos"   -> "maria santos"
    [] s = "Volunteer Demo" -> "volunteer demo"
    [] s = "Elder Demo"     -> "elder demo"
    [] OTHER                -> s

\* the seed of cvsa_locations: admin-locations.js DEFAULT_LOCATIONS
DEFAULT_LOCATIONS ==
  << [id |-> "taytay-market",   name |-> "Taytay Market",   slotCapacity |-> 3],
     [id |-> "angono-plaza",    name |-> "Angono Plaza",    slotCapacity |-> 2],
     [id |-> "angono-entrance", name |-> "Angono Entrance", slotCapacity |-> 2],
     [id |-> "pritil-entrance", name |-> "Pritil Entrance", slotCapacity |-> 2],
     [id |-> "pritil-exit",     name |-> "Pritil Exit",     slotCapacity |-> 1] >>

LocIds == { DEFAULT_LOCATIONS[i].id : i \in DOMAIN DEFAULT_LOCATIONS }

\* the locations the user picks among in the model
PickLocIds == {"angono-plaza", "pritil-exit"}

\* slugify(name) + '-' + uid() of the n-th location added through the form
customId(n) ==
  CASE n = 1 -> "custom-location-1"
    [] n = 2 -> "custom-location-2"
    [] OTHER -> "custom-location-3"

CustomLocIds == { customId(n) : n \in 1..(MaxLocations + 1) }

AllLocIds == LocIds \cup CustomLocIds

\* the global default slot set of admin-schedules.js
DEFAULT_SLOTS ==
  << [id |-> "6-8am",   startHour |-> 6,  endHour |-> 8,  minVol |-> 1, maxVol |-> 4],
     [id |-> "8-10am",  startHour |-> 8,  endHour |-> 10, minVol |-> 1, maxVol |-> 4],
     [id |-> "10-12pm", startHour |-> 10, endHour |-> 12, minVol |-> 1, maxVol |-> 4],
     [id |-> "12-2pm",  startHour |-> 12, endHour |-> 14, minVol |-> 1, maxVol |-> 4],
     [id |-> "2-4pm",   startHour |-> 14, endHour |-> 16, minVol |-> 1, maxVol |-> 4],
     [id |-> "4-6pm",   startHour |-> 16, endHour |-> 18, minVol |-> 1, maxVol |-> 4],
     [id |-> "6-8pm",   startHour |-> 18, endHour |-> 20, minVol |-> 1, maxVol |-> 4] >>

\* the slots and dates the user picks among in the model
PickSlotIds == {"2-4pm", "4-6pm"}
Dates == {"2025-01-10"}

\* the self-service cancellation window: 30 * 60 * 1000 ms, in minutes
CANCEL_WINDOW == 30

----------------------------------------------------------------------------
(* State *)

VARIABLES
  bookings,       \* cvsa_bookings: the persisted booking array
  locationSlots,  \* cvsa_location_slots: locationId -> custom slot list
  session,        \* cvsa_session: the signed-in username, or Undefined
  now,            \* Date.now(), minutes since midnight of the model's date
  nextId,         \* number of ids handed out by uid() so far, plus one
  tab,            \* per tab: the open view or dialog and what it captured
  forced,         \* ids of bookings added by an "Assign anyway" confirmation
  locations,      \* cvsa_locations: the persisted location list
  defaultSlots,   \* the in-memory DEFAULT_SLOTS array of admin-schedules.js (one
                  \* page's; only single-tab specifications change it)
  notified,       \* the last handler dispatched cvsa:bookings:updated
  storageOk,      \* localStorage.setItem succeeds (FALSE: it throws)
  added,          \* number of locations created through the Add Location form
  slotSeq         \* number of slots created through the schedule forms

vars == <<bookings, locationSlots, session, now, nextId, tab, forced,
          locations, defaultSlots, notified, storageOk, added, slotSeq>>

Idle == [pc |-> "idle", msg |-> ""]
Told(m) == [pc |-> "idle", msg |-> m]

Init ==
  /\ bookings = << >>
  /\ locationSlots = [l \in AllLocIds |-> << >>]
  /\ session = Undefined
  /\ now = StartNow
  /\ nextId = 1
  /\ tab = [t \in Tabs |-> Idle]
  /\ forced = {}
  /\ locations = DEFAULT_LOCATIONS
  /\ defaultSlots = DEFAULT_SLOTS
  /\ notified = FALSE
  /\ storageOk = TRUE
  /\ added = 0
  /\ slotSeq = 0

----------------------------------------------------------------------------
(* Locations *)

HasLocation(id) == \E i \in DOMAIN locations : locations[i].id = id

\* findLocationById: loadLocations().find(l => l.id === id)
findLocationById(id) ==
  locations[CHOOSE i \in DOMAIN locations :
              /\ locations[i].id = id
              /\ \A j \in DOMAIN locations : locations[j].id = id => i <= j]

----------------------------------------------------------------------------
(* Slot catalog *)

\* a list handed out by reference: val is its content, ref tells whether
\* writing to it writes to the page's DEFAULT_SLOTS array
\* DEFAULT_SLOTS itself, handed out without a copy
aliasedDefaults == [ref |-> "DEFAULT_SLOTS", val |-> defaultSlots]

\* DEFAULT_SLOTS.map(clone): a new array of new slot objects
clonedDefaults == [ref |-> "copy", val |-> defaultSlots]

\* getSlotsForLocation of admin-schedules.js, which every module calls: the
\* custom list when it is a non-empty array, else the cloned defaults
slotsHandle(locationId) ==
  IF Len(locationSlots[locationId]) = 0
    THEN clonedDefaults
    ELSE [ref |-> "copy", val |-> locationSlots[locationId]]

getSlotsForLocation(locationId) == slotsHandle(locationId).val

\* Array.prototype.find on a slot list: the first slot with that id, if any
HasSlot(slots, slotId) == \E i \in DOMAIN slots : slots[i].id = slotId
FindSlot(slots, slotId) ==
  slots[CHOOSE i \in DOMAIN slots :
          /\ slots[i].id = slotId
          /\ \A j \in DOMAIN slots : slots[j].id = slotId => i <= j]

\* slotStartDateTime(dateStr, slot), minutes since midnight of the date
slotStartDateTime(dateStr, slot) == slot.startHour * 60

----------------------------------------------------------------------------
(* Booking queries of the volunteer dashboard *)

getBookingsFor(all, locationId, dateStr, slotId) ==
  SelectSeq(all, LAMBDA b : /\ b.locationId = locationId
                            /\ b.date = dateStr
                            /\ b.slotId = slotId)

getUserBookings(all, username) ==
  SelectSeq(all, LAMBDA b : /\ b.username # Undefined
                            /\ toLowerCase(b.username) = toLowerCase(username))

userHasBookingForSlot(all, username, locationId, dateStr, slotId) ==
  \E i \in DOMAIN all : /\ all[i].username = username
                        /\ all[i].locationId = locationId
                        /\ all[i].date = dateStr
                        /\ all[i].slotId = slotId

\* the record both self-booking flows build in onConfirm
selfBooking(user, locationId, dateStr, ts) ==
  [ id          |-> nextId,
    username    |-> user,
    displayName |-> displayNameOf(user),
    volunteerId |-> Undefined,
    locationId  |-> locationId,
    date        |-> dateStr,
    slotId      |-> ts.id,
    startHour   |-> NoNumber,
    endHour     |-> NoNumber,
    status      |-> Undefined,
    checkedInAt |-> NoNumber,
    createdAt   |-> now ]

\* save(key, value): setItem inside try/catch; a failure is logged and the
\* stored value stays what it was
save(stored, value) == IF storageOk THEN value ELSE stored

addBooking(all, booking) == save(all, Append(all, booking))

removeBookingById(all, id) == save(all, SelectSeq(all, LAMBDA b : b.id # id))

----------------------------------------------------------------------------
(* Sign-in (auth.js) and the clock *)

Login(u) ==
  /\ session' = save(session, u)
  /\ notified' = FALSE
  /\ UNCHANGED <<slotSeq, added, locations, defaultSlots, storageOk, bookings, locationSlots, now, nextId, tab, forced>>

Tick ==
  /\ now + TickMinutes <= StartNow + (MaxTicks * TickMinutes)
  /\ now' = now + TickMinutes
  /\ notified' = FALSE
  /\ UNCHANGED <<slotSeq, added, locations, defaultSlots, storageOk, bookings, locationSlots, session, nextId, tab, forced>>

\* closeModal: the Cancel button or the backdrop of whatever is open
Close(t) ==
  /\ tab[t].pc # "idle"
  /\ tab' = [tab EXCEPT ![t] = Idle]
  /\ notified' = FALSE
  /\ UNCHANGED <<slotSeq, added, locations, defaultSlots, storageOk, bookings, locationSlots, session, now, nextId, forced>>

\* a page reload: the scripts start over (the page's DEFAULT_SLOTS is the
\* literal again, nothing is open) and initAuthUI shows the login page and
\* calls clearSession
Reload(t) ==
  /\ session' = Undefined
  /\ defaultSlots' = DEFAULT_SLOTS
  /\ tab' = [tab EXCEPT ![t] = Told("login-page")]
  /\ notified' = FALSE
  /\ UNCHANGED <<slotSeq, added, locations, storageOk, bookings, locationSlots, now,
                 nextId, forced>>

\* localStorage.setItem starts to throw (the quota is used up, storage is
\* turned off): what the catch branch of every save is there for
StorageFails ==
  /\ storageOk
  /\ storageOk' = FALSE
  /\ notified' = FALSE
  /\ UNCHANGED <<slotSeq, added, locations, defaultSlots, bookings, locationSlots,
                 session, now, nextId, tab, forced>>

----------------------------------------------------------------------------
(* Volunteer dashboard: location modal *)

\* openLocationModal / renderGridForDate: one slot card of the rendered grid
\* with what its Book and Cancel handlers close over
OpenLocationModal(t, locationId, dateStr, slotId) ==
  /\ tab[t].pc = "idle"
  /\ HasLocation(locationId)
  /\ HasSlot(getSlotsForLocation(locationId), slotId)
  /\ LET loc      == findLocationById(locationId)
         ts       == FindSlot(getSlotsForLocation(locationId), slotId)
         assigned == getBookingsFor(bookings, locationId, dateStr, slotId)
         user     == session
         alreadyBooked ==
           IF user # Undefined
             THEN userHasBookingForSlot(bookings, user, locationId, dateStr, slotId)
             ELSE FALSE
     IN tab' = [tab EXCEPT ![t] =
                  [pc |-> "grid", msg |-> "", user |-> user, loc |-> loc,
                   date |-> dateStr, ts |-> ts, assigned |-> Len(assigned),
                   alreadyBooked |-> alreadyBooked]]
  /\ notified' = FALSE
  /\ UNCHANGED <<slotSeq, added, locations, defaultSlots, storageOk, bookings, locationSlots, session, now, nextId, forced>>

\* the Book button of a slot card; the button is disabled when the rendered
\* card was full or already booked
ClickBook(t) ==
  /\ tab[t].pc = "grid"
  /\ ~(tab[t].assigned >= tab[t].loc.slotCapacity)
  /\ ~tab[t].alreadyBooked
  /\ tab' = [tab EXCEPT ![t] =
       IF tab[t].user = Undefined THEN Told("Not signed in")
       ELSE IF tab[t].assigned >= tab[t].loc.slotCapacity THEN Told("Full")
       ELSE IF tab[t].alreadyBooked THEN Told("Already booked")
       ELSE [tab[t] EXCEPT !.pc = "bookConfirm"]]
  /\ notified' = FALSE
  /\ UNCHANGED <<slotSeq, added, locations, defaultSlots, storageOk, bookings, locationSlots, session, now, nextId, forced>>

\* onConfirm of the "Confirm booking" dialog
ConfirmBook(t) ==
  /\ tab[t].pc = "bookConfirm"
  /\ nextId <= MaxBookings
  /\ bookings' = addBooking(bookings,
        selfBooking(tab[t].user, tab[t].loc.id, tab[t].date, tab[t].ts))
  /\ nextId' = nextId + 1
  /\ tab' = [tab EXCEPT ![t] = Told("Booking confirmed")]
  /\ notified' = FALSE
  /\ UNCHANGED <<slotSeq, added, locations, defaultSlots, storageOk, locationSlots, session, now, forced>>

\* ClickCancel with the cutoff comparison made inclusive: a cancellation
\* asked exactly 30 minutes before the start is turned down as well
ClickCancelInclusive(t) ==
  /\ tab[t].pc = "grid"
  /\ tab[t].user # Undefined
  /\ tab[t].alreadyBooked
  /\ LET mine == SelectSeq(bookings, LAMBDA item :
                   /\ item.username = tab[t].user
                   /\ item.locationId = tab[t].loc.id
                   /\ item.date = tab[t].date
                   /\ item.slotId = tab[t].ts.id)
         slotStart == slotStartDateTime(tab[t].date, tab[t].ts)
         diffMs    == slotStart - now
     IN tab' = [tab EXCEPT ![t] =
          IF Len(mine) = 0 THEN Told("Booking not found.")
          ELSE IF diffMs <= CANCEL_WINDOW THEN Told("Too late to cancel")
          ELSE [pc |-> "cancelConfirm", msg |-> "", bid |-> mine[1].id]]
  /\ notified' = FALSE
  /\ UNCHANGED <<slotSeq, added, locations, defaultSlots, storageOk, bookings, locationSlots, session, now, nextId, forced>>

\* the Cancel button of a slot card, present when the rendered card was
\* booked by the signed-in user
ClickCancel(t) ==
  /\ tab[t].pc = "grid"
  /\ tab[t].user # Undefined
  /\ tab[t].alreadyBooked
  /\ LET mine == SelectSeq(bookings, LAMBDA item :
                   /\ item.username = tab[t].user
                   /\ item.locationId = tab[t].loc.id
                   /\ item.date = tab[t].date
                   /\ item.slotId = tab[t].ts.id)
         slotStart == slotStartDateTime(tab[t].date, tab[t].ts)
         diffMs    == slotStart - now
     IN tab' = [tab EXCEPT ![t] =
          IF Len(mine) = 0 THEN Told("Booking not found.")
          ELSE IF diffMs < CANCEL_WINDOW THEN Told("Too late to cancel")
          ELSE [pc |-> "cancelConfirm", msg |-> "", bid |-> mine[1].id]]
  /\ notified' = FALSE
  /\ UNCHANGED <<slotSeq, added, locations, defaultSlots, storageOk, bookings, locationSlots, session, now, nextId, forced>>

\* onConfirm of the "Confirm cancellation" dialog of the location modal
ConfirmCancel(t) ==
  /\ tab[t].pc = "cancelConfirm"
  /\ bookings' = removeBookingById(bookings, tab[t].bid)
  /\ tab' = [tab EXCEPT ![t] = Told("Booking canceled")]
  /\ notified' = FALSE
  /\ UNCHANGED <<slotSeq, added, locations, defaultSlots, storageOk, locationSlots, session, now, nextId, forced>>

----------------------------------------------------------------------------
(* Volunteer dashboard: step-by-step booking *)

\* renderTimeslotCards and the click on one card: the card is clickable when
\* it was rendered neither full nor already booked
SelectSlot(t, locationId, dateStr, slotId) ==
  /\ tab[t].pc = "idle"
  /\ HasLocation(locationId)
  /\ HasSlot(getSlotsForLocation(locationId), slotId)
  /\ LET selectedLocation == findLocationById(locationId)
         ts        == FindSlot(getSlotsForLocation(locationId), slotId)
         assigned  == getBookingsFor(bookings, locationId, dateStr, slotId)
         available == selectedLocation.slotCapacity - Len(assigned)
         isFull    == available <= 0
         alreadyBooked ==
           IF session # Undefined
             THEN userHasBookingForSlot(bookings, session, locationId, dateStr, slotId)
             ELSE FALSE
     IN /\ ~isFull
        /\ ~alreadyBooked
        /\ tab' = [tab EXCEPT ![t] =
                     [pc |-> "stepSelected", msg |-> "",
                      selectedLocation |-> selectedLocation,
                      selectedDate |-> dateStr, selectedSlot |-> ts]]
  /\ notified' = FALSE
  /\ UNCHANGED <<slotSeq, added, locations, defaultSlots, storageOk, bookings, locationSlots, session, now, nextId, forced>>

\* the "Confirm booking" button of the step-by-step flow
ClickConfirmBooking(t) ==
  /\ tab[t].pc = "stepSelected"
  /\ LET user == session
         sel  == tab[t]
         alreadyBooked == userHasBookingForSlot(bookings, user,
                            sel.selectedLocation.id, sel.selectedDate, sel.selectedSlot.id)
         assigned == getBookingsFor(bookings, sel.selectedLocation.id,
                                    sel.selectedDate, sel.selectedSlot.id)
     IN tab' = [tab EXCEPT ![t] =
          IF user = Undefined THEN [sel EXCEPT !.msg = "Not signed in"]
          ELSE IF alreadyBooked THEN [sel EXCEPT !.msg = "Already booked"]
          ELSE IF Len(assigned) >= sel.selectedLocation.slotCapacity
            THEN [sel EXCEPT !.msg = "Slot full"]
          ELSE [pc |-> "stepConfirm", msg |-> "", user |-> user,
                selectedLocation |-> sel.selectedLocation,
                selectedDate |-> sel.selectedDate,
                selectedSlot |-> sel.selectedSlot]]
  /\ notified' = FALSE
  /\ UNCHANGED <<slotSeq, added, locations, defaultSlots, storageOk, bookings, locationSlots, session, now, nextId, forced>>

\* onConfirm of the step-by-step "Confirm Booking" dialog
ConfirmStepBooking(t) ==
  /\ tab[t].pc = "stepConfirm"
  /\ nextId <= MaxBookings
  /\ bookings' = addBooking(bookings,
        selfBooking(tab[t].user, tab[t].selectedLocation.id,
                    tab[t].selectedDate, tab[t].selectedSlot))
  /\ nextId' = nextId + 1
  /\ tab' = [tab EXCEPT ![t] = Told("Booking confirmed")]
  /\ notified' = FALSE
  /\ UNCHANGED <<slotSeq, added, locations, defaultSlots, storageOk, locationSlots, session, now, forced>>

----------------------------------------------------------------------------
(* Volunteer dashboard: My Assignments *)

\* renderMyAssignments: one card of the list with what its Cancel handler
\* closes over; only cards of the "upcoming" bucket get a Cancel button
RenderMyAssignments(t, i) ==
  /\ tab[t].pc = "idle"
  /\ session # Undefined
  /\ LET list == getUserBookings(bookings, session)
     IN /\ i \in DOMAIN list
        /\ LET b == list[i]
               locationSlots_ == getSlotsForLocation(b.locationId)
               slot == IF HasSlot(locationSlots_, b.slotId)
                         THEN FindSlot(locationSlots_, b.slotId)
                         ELSE [id |-> Undefined, startHour |-> 0]
               slotStart == slotStartDateTime(b.date, slot)
           IN tab' = [tab EXCEPT ![t] =
                        [pc |-> "myAssign", msg |-> "", bid |-> b.id,
                         slotStart |-> slotStart,
                         allowCancel |-> (slotStart >= now)]]
  /\ notified' = FALSE
  /\ UNCHANGED <<slotSeq, added, locations, defaultSlots, storageOk, bookings, locationSlots, session, now, nextId, forced>>

\* the Cancel button of a My Assignments card
ClickCancelMine(t) ==
  /\ tab[t].pc = "myAssign"
  /\ tab[t].allowCancel
  /\ LET diffMs == tab[t].slotStart - now
     IN tab' = [tab EXCEPT ![t] =
          IF diffMs < CANCEL_WINDOW THEN Told("Too late to cancel")
          ELSE [pc |-> "myCancelConfirm", msg |-> "", bid |-> tab[t].bid]]
  /\ notified' = FALSE
  /\ UNCHANGED <<slotSeq, added, locations, defaultSlots, storageOk, bookings, locationSlots, session, now, nextId, forced>>

\* onConfirm of the "Confirm cancellation" dialog of My Assignments
ConfirmCancelMine(t) ==
  /\ tab[t].pc = "myCancelConfirm"
  /\ bookings' = removeBookingById(bookings, tab[t].bid)
  /\ tab' = [tab EXCEPT ![t] = Told("Booking canceled")]
  /\ notified' = FALSE
  /\ UNCHANGED <<slotSeq, added, locations, defaultSlots, storageOk, locationSlots, session, now, nextId, forced>>

----------------------------------------------------------------------------
(* Admin assignments: model helpers (admin-assignments.js) *)

getAssignmentsForCell(all, locationId, dateStr, slotId) ==
  SelectSeq(all, LAMBDA b : /\ b.locationId = locationId
                            /\ b.date = dateStr
                            /\ b.slotId = slotId)

getAssignmentsForVolunteerOnDate(all, volIdOrName, dateStr) ==
  SelectSeq(all, LAMBDA b :
    /\ b.date = dateStr
    /\ volIdOrName # Undefined
    /\ \/ b.username # Undefined
          /\ toLowerCase(b.username) = toLowerCase(volIdOrName)
       \/ b.displayName # Undefined
          /\ toLowerCase(b.displayName) = toLowerCase(volIdOrName)
       \/ b.volunteerId # Undefined
          /\ b.volunteerId = volIdOrName)

\* Number(x || 0) of an hour field
NumberOr0(h) == IF h = NoNumber THEN 0 ELSE h

slotRange(slot) ==
  [start |-> NumberOr0(slot.startHour), end |-> NumberOr0(slot.endHour)]

\* the comparison on closed intervals: slots that only touch overlap too
rangesOverlapClosed(aStart, aEnd, bStart, bEnd) == aStart <= bEnd /\ bStart <= aEnd

rangesOverlap(aStart, aEnd, bStart, bEnd) == aStart < bEnd /\ bStart < aEnd

\* the slot object detectConflictFor compares an existing booking by
existingSlotOf(b) ==
  LET slots == getSlotsForLocation(b.locationId)
  IN IF HasSlot(slots, b.slotId)
       THEN FindSlot(slots, b.slotId)
       ELSE [id |-> Undefined,
             startHour |-> NumberOr0(b.startHour),
             endHour |-> NumberOr0(b.endHour)]

\* detectConflictFor: the first overlapping booking in persisted order
detectConflictFor(all, volIdentifier, dateStr, newSlot) ==
  LET existing == getAssignmentsForVolunteerOnDate(all, volIdentifier, dateStr)
      newRange == slotRange(newSlot)
      hits == { i \in DOMAIN existing :
                  LET existingRange == slotRange(existingSlotOf(existing[i]))
                  IN rangesOverlap(newRange.start, newRange.end,
                                   existingRange.start, existingRange.end) }
  IN IF hits = {}
       THEN [conflict |-> FALSE, bookingId |-> 0]
       ELSE [conflict |-> TRUE,
             bookingId |-> existing[CHOOSE i \in hits : \A j \in hits : i <= j].id]

\* the entry renderGridForDate keeps per column in slotMap: label and hours
\* of the first location's slot with that id; the id itself is not copied
slotMapEntry(s) ==
  [id |-> Undefined, startHour |-> s.startHour, endHour |-> s.endHour]

\* the column headers: slot ids used by at least one location
slotHeaders ==
  UNION { { getSlotsForLocation(locations[k].id)[i].id :
              i \in DOMAIN getSlotsForLocation(locations[k].id) } : k \in DOMAIN locations }

slotMap(slotId) ==
  LET first == CHOOSE i \in DOMAIN locations :
                 /\ HasSlot(getSlotsForLocation(locations[i].id), slotId)
                 /\ \A j \in DOMAIN locations :
                      HasSlot(getSlotsForLocation(locations[j].id), slotId) => i <= j
  IN slotMapEntry(FindSlot(getSlotsForLocation(locations[first].id), slotId))

\* x || y on strings
OrElse(x, y) == IF x # Undefined /\ x # "" THEN x ELSE y

makeBooking(vol, location, slotObj, dateStr, id) ==
  [ id          |-> id,
    username    |-> OrElse(vol.email, vol.id),
    displayName |-> OrElse(vol.name, vol.email),
    volunteerId |-> OrElse(vol.id, Undefined),
    locationId  |-> location.id,
    date        |-> dateStr,
    slotId      |-> slotObj.id,
    startHour   |-> slotObj.startHour,
    endHour     |-> slotObj.endHour,
    status      |-> Undefined,
    checkedInAt |-> NoNumber,
    createdAt   |-> now ]

addAssignment(all, assignment) == save(all, Append(all, assignment))

removeAssignmentById(all, id) == save(all, SelectSeq(all, LAMBDA b : b.id # id))

----------------------------------------------------------------------------
(* Admin assignments: grid handlers *)

\* a grid cell takes drops and clicks when the slot is configured for the
\* location of its row
CellConfigured(locationId, slotId) ==
  /\ HasLocation(locationId)
  /\ slotId \in slotHeaders
  /\ HasSlot(getSlotsForLocation(locationId), slotId)

\* the drop handler without its conflict branch: the assignment is persisted
\* whether or not detectConflictFor reports an overlap
AdminDropUnchecked(t, volId, locationId, dateStr, slotId) ==
  /\ tab[t].pc = "idle"
  /\ CellConfigured(locationId, slotId)
  /\ nextId <= MaxBookings
  /\ bookings' = addAssignment(bookings,
        makeBooking(findVolunteerById(volId), findLocationById(locationId),
                    slotMap(slotId), dateStr, nextId))
  /\ nextId' = nextId + 1
  /\ tab' = [tab EXCEPT ![t] = Idle]
  /\ notified' = FALSE
  /\ UNCHANGED <<slotSeq, added, locations, defaultSlots, storageOk, locationSlots, session, now, forced>>

\* the drop handler of a grid cell
AdminDrop(t, volId, locationId, dateStr, slotId) ==
  /\ tab[t].pc = "idle"
  /\ CellConfigured(locationId, slotId)
  /\ LET vol      == findVolunteerById(volId)
         loc      == findLocationById(locationId)
         slotObj  == slotMap(slotId)
         conflict == detectConflictFor(bookings, OrElse(vol.id, vol.name), dateStr, slotObj)
     IN IF conflict.conflict
          THEN /\ tab' = [tab EXCEPT ![t] =
                    [pc |-> "dropConflict", msg |-> "Possible double-booking",
                     vol |-> vol, loc |-> loc, slotObj |-> slotObj, date |-> dateStr]]
               /\ UNCHANGED <<bookings, nextId>>
          ELSE /\ nextId <= MaxBookings
               /\ bookings' = addAssignment(bookings,
                                 makeBooking(vol, loc, slotObj, dateStr, nextId))
               /\ nextId' = nextId + 1
               /\ tab' = [tab EXCEPT ![t] = Idle]
  /\ notified' = FALSE
  /\ UNCHANGED <<slotSeq, added, locations, defaultSlots, storageOk, locationSlots, session, now, forced>>

\* onConfirm ("Assign anyway") of the drop handler's double-booking dialog
ConfirmAssignAnyway(t) ==
  /\ tab[t].pc = "dropConflict"
  /\ nextId <= MaxBookings
  /\ bookings' = addAssignment(bookings,
        makeBooking(tab[t].vol, tab[t].loc, tab[t].slotObj, tab[t].date, nextId))
  /\ nextId' = nextId + 1
  /\ forced' = forced \cup {nextId}
  /\ tab' = [tab EXCEPT ![t] = Idle]
  /\ notified' = FALSE
  /\ UNCHANGED <<slotSeq, added, locations, defaultSlots, storageOk, locationSlots, session, now>>

\* click on a cell with no volunteer ticked: the manual assignment form
OpenManualAssign(t, locationId, dateStr, slotId) ==
  /\ tab[t].pc = "idle"
  /\ CellConfigured(locationId, slotId)
  /\ tab' = [tab EXCEPT ![t] =
       [pc |-> "manualForm", msg |-> "Assign volunteer",
        location |-> findLocationById(locationId),
        slotObj |-> slotMap(slotId), date |-> dateStr]]
  /\ notified' = FALSE
  /\ UNCHANGED <<slotSeq, added, locations, defaultSlots, storageOk, bookings, locationSlots, session, now, nextId, forced>>

\* onConfirm ("Assign") of the manual form.  On a conflict it opens the
\* "Double-booking detected" dialog, and the form's own close(), which runs
\* right after onConfirm, hides that dialog and clears its confirm handler.
ConfirmManualAssign(t, volId) ==
  /\ tab[t].pc = "manualForm"
  /\ LET vol      == findVolunteerById(volId)
         conflict == detectConflictFor(bookings, OrElse(vol.id, vol.name),
                                       tab[t].date, tab[t].slotObj)
     IN IF conflict.conflict
          THEN /\ tab' = [tab EXCEPT ![t] = Idle]
               /\ UNCHANGED <<bookings, nextId>>
          ELSE /\ nextId <= MaxBookings
               /\ bookings' = addAssignment(bookings,
                     makeBooking(vol, tab[t].location, tab[t].slotObj, tab[t].date, nextId))
               /\ nextId' = nextId + 1
               /\ tab' = [tab EXCEPT ![t] = Idle]
  /\ notified' = FALSE
  /\ UNCHANGED <<slotSeq, added, locations, defaultSlots, storageOk, locationSlots, session, now, forced>>

\* toAssign.forEach(v => addAssignment(makeBooking(v, ...)))
RECURSIVE assignAll(_, _, _, _, _, _)
assignAll(all, toAssign, location, slotObj, dateStr, id) ==
  IF Len(toAssign) = 0
    THEN all
    ELSE assignAll(addAssignment(all, makeBooking(Head(toAssign), location, slotObj, dateStr, id)),
                   Tail(toAssign), location, slotObj, dateStr, id + 1)

\* click on a cell with volunteers ticked: handleBulkAssign
AdminBulkAssign(t, selected, locationId, dateStr, slotId) ==
  /\ tab[t].pc = "idle"
  /\ CellConfigured(locationId, slotId)
  /\ selected # {}
  /\ LET location  == findLocationById(locationId)
         slotObj   == slotMap(slotId)
         volObjs   == SelectSeq(DEMO_VOLUNTEERS, LAMBDA v : v.id \in selected)
         conflicts == SelectSeq(volObjs, LAMBDA v :
                        detectConflictFor(bookings, OrElse(v.id, v.name), dateStr, slotObj).conflict)
         toAssign  == volObjs
     IN IF Len(conflicts) > 0
          THEN /\ tab' = [tab EXCEPT ![t] =
                    [pc |-> "bulkConflict", msg |-> "Conflicts detected",
                     toAssign |-> toAssign, location |-> location,
                     slotObj |-> slotObj, date |-> dateStr]]
               /\ UNCHANGED <<bookings, nextId>>
          ELSE /\ nextId + Len(toAssign) - 1 <= MaxBookings
               /\ bookings' = assignAll(bookings, toAssign, location, slotObj, dateStr, nextId)
               /\ nextId' = nextId + Len(toAssign)
               /\ tab' = [tab EXCEPT ![t] = Idle]
  /\ notified' = FALSE
  /\ UNCHANGED <<slotSeq, added, locations, defaultSlots, storageOk, locationSlots, session, now, forced>>

\* onConfirm ("Assign anyway") of the bulk conflict dialog
ConfirmBulkAnyway(t) ==
  /\ tab[t].pc = "bulkConflict"
  /\ nextId + Len(tab[t].toAssign) - 1 <= MaxBookings
  /\ bookings' = assignAll(bookings, tab[t].toAssign, tab[t].location,
                           tab[t].slotObj, tab[t].date, nextId)
  /\ nextId' = nextId + Len(tab[t].toAssign)
  /\ forced' = forced \cup (nextId .. (nextId + Len(tab[t].toAssign) - 1))
  /\ tab' = [tab EXCEPT ![t] = Idle]
  /\ notified' = FALSE
  /\ UNCHANGED <<slotSeq, added, locations, defaultSlots, storageOk, locationSlots, session, now>>

\* the remove button of an assignment badge; a badge is rendered for the
\* bookings getAssignmentsForCell finds in a configured cell
AdminRemoveClick(t, i) ==
  /\ tab[t].pc = "idle"
  /\ i \in DOMAIN bookings
  /\ CellConfigured(bookings[i].locationId, bookings[i].slotId)
  /\ tab' = [tab EXCEPT ![t] =
       [pc |-> "removeConfirm", msg |-> "Remove assignment", bid |-> bookings[i].id]]
  /\ notified' = FALSE
  /\ UNCHANGED <<slotSeq, added, locations, defaultSlots, storageOk, bookings, locationSlots, session, now, nextId, forced>>

\* the check renderGridForDate makes for the badge of assignment a in the
\* column slotId: detectConflictFor over every stored booking
badgeConflict(all, a, slotId) ==
  detectConflictFor(all, OrElse(a.username, OrElse(a.displayName, a.volunteerId)),
                    a.date, slotMap(slotId)).conflict

\* renderGridForDate draws the badge of the i-th stored booking in its cell,
\* marked "Conflict" when the check reports one
RenderBadge(t, i) ==
  /\ tab[t].pc = "idle"
  /\ i \in DOMAIN bookings
  /\ CellConfigured(bookings[i].locationId, bookings[i].slotId)
  /\ tab' = [tab EXCEPT ![t] =
       [pc |-> "badge",
        msg |-> IF badgeConflict(bookings, bookings[i], bookings[i].slotId)
                  THEN "Conflict" ELSE "",
        bid |-> bookings[i].id]]
  /\ notified' = FALSE
  /\ UNCHANGED <<slotSeq, added, locations, defaultSlots, storageOk, bookings, locationSlots, session, now, nextId, forced>>

\* onConfirm ("Remove") of the grid's remove dialog
ConfirmRemove(t) ==
  /\ tab[t].pc = "removeConfirm"
  /\ bookings' = removeAssignmentById(bookings, tab[t].bid)
  /\ tab' = [tab EXCEPT ![t] = Idle]
  /\ notified' = FALSE
  /\ UNCHANGED <<slotSeq, added, locations, defaultSlots, storageOk, locationSlots, session, now, nextId, forced>>

----------------------------------------------------------------------------
(* Admin reports (admin-reports.js) *)

\* saveBookingUpdate: replace the record with bk's id, or push bk
saveBookingUpdate(all, bk) ==
  IF \E i \in DOMAIN all : all[i].id = bk.id
    THEN LET idx == CHOOSE i \in DOMAIN all :
                      /\ all[i].id = bk.id
                      /\ \A j \in DOMAIN all : all[j].id = bk.id => i <= j
         IN save(all, [all EXCEPT ![idx] = bk])
    ELSE save(all, Append(all, bk))

\* generateReport: one row of the rendered report, whose buttons close over
\* the booking object bk loaded when the report was rendered
GenerateReport(t, i) ==
  /\ tab[t].pc = "idle"
  /\ i \in DOMAIN bookings
  /\ tab' = [tab EXCEPT ![t] = [pc |-> "report", msg |-> "", bk |-> bookings[i]]]
  /\ notified' = FALSE
  /\ UNCHANGED <<slotSeq, added, locations, defaultSlots, storageOk, bookings, locationSlots, session, now, nextId, forced>>

\* the "Check in" button of a report row
ReportCheckIn(t) ==
  /\ tab[t].pc = "report"
  /\ LET bk == [tab[t].bk EXCEPT !.status = "checked-in", !.checkedInAt = now]
     IN bookings' = saveBookingUpdate(bookings, bk)
  /\ tab' = [tab EXCEPT ![t] = Idle]
  /\ notified' = TRUE
  /\ UNCHANGED <<slotSeq, added, locations, defaultSlots, storageOk, locationSlots, session, now, nextId, forced>>

\* the "No-show" button of a report row
ReportNoShow(t) ==
  /\ tab[t].pc = "report"
  /\ LET bk == [tab[t].bk EXCEPT !.status = "no-show"]
     IN bookings' = saveBookingUpdate(bookings, bk)
  /\ tab' = [tab EXCEPT ![t] = Idle]
  /\ notified' = TRUE
  /\ UNCHANGED <<slotSeq, added, locations, defaultSlots, storageOk, locationSlots, session, now, nextId, forced>>

\* the "Remove" button of a report row
ReportRemoveClick(t) ==
  /\ tab[t].pc = "report"
  /\ tab' = [tab EXCEPT ![t] =
       [pc |-> "reportRemoveConfirm", msg |-> "Remove assignment", bid |-> tab[t].bk.id]]
  /\ notified' = FALSE
  /\ UNCHANGED <<slotSeq, added, locations, defaultSlots, storageOk, bookings, locationSlots, session, now, nextId, forced>>

\* onConfirm of the report's remove dialog: AdminReports.removeBookingById
ConfirmReportRemove(t) ==
  /\ tab[t].pc = "reportRemoveConfirm"
  /\ bookings' = save(bookings, SelectSeq(bookings, LAMBDA b : b.id # tab[t].bid))
  /\ tab' = [tab EXCEPT ![t] = Idle]
  /\ notified' = TRUE
  /\ UNCHANGED <<slotSeq, added, locations, defaultSlots, storageOk, locationSlots, session, now, nextId, forced>>

----------------------------------------------------------------------------
(* Admin locations *)

\* what the Add Location form is filled with in the model
LocNames == {"", "Angono Plaza", "Kiosk"}
LocCapacities == {0, 1}

\* ensureDefaultLocations: the stored list when it has five entries or more,
\* otherwise a copy of DEFAULT_LOCATIONS
ensureDefaultLocations(stored) ==
  IF Len(stored) >= Len(DEFAULT_LOCATIONS) THEN stored ELSE DEFAULT_LOCATIONS

\* cvsa_locations after ensureDefaultLocations ran: the seed is saved
seedLocations(stored) == save(stored, ensureDefaultLocations(stored))

\* countAssignedToLocation: every booking with that locationId
countAssignedToLocation(all, locationId) ==
  Len(SelectSeq(all, LAMBDA b : b.locationId = locationId))

\* onAddLocationClick: the Add Location form opens
AddLocationClick(t) ==
  /\ tab[t].pc = "idle"
  /\ tab' = [tab EXCEPT ![t] = [pc |-> "addLocation", msg |-> ""]]
  /\ notified' = FALSE
  /\ UNCHANGED <<slotSeq, added, locations, defaultSlots, storageOk, bookings, locationSlots,
                 session, now, nextId, forced>>

\* onConfirm of the Add Location form; the modal closes whatever it returns
ConfirmAddLocation(t, name, slotCapacity) ==
  /\ tab[t].pc = "addLocation"
  /\ added < MaxLocations
  /\ LET valid  == name # "" /\ slotCapacity >= 1
         list   == ensureDefaultLocations(locations)
         seeded == seedLocations(locations)
         dup    == \E i \in DOMAIN list : toLowerCase(list[i].name) = toLowerCase(name)
         newLoc == [id |-> customId(added + 1), name |-> name,
                    slotCapacity |-> slotCapacity]
     IN IF ~valid
          THEN UNCHANGED <<locations, added>>
          ELSE IF dup
            THEN /\ locations' = seeded
                 /\ UNCHANGED added
            ELSE /\ locations' = seedLocations(save(seeded, Append(list, newLoc)))
                 /\ added' = added + 1
  /\ tab' = [tab EXCEPT ![t] = Idle]
  /\ notified' = FALSE
  /\ UNCHANGED <<slotSeq, defaultSlots, storageOk, bookings, locationSlots, session,
                 now, nextId, forced>>

\* onDeleteLocation: the Delete button of a row of the locations table
DeleteLocationClick(t, id) ==
  /\ tab[t].pc = "idle"
  /\ LET list == ensureDefaultLocations(locations)
     IN tab' = [tab EXCEPT ![t] =
          IF ~(\E i \in DOMAIN list : list[i].id = id)
            THEN Told("Location not found")
          ELSE IF countAssignedToLocation(bookings, id) > 0
            THEN [pc |-> "info", msg |-> "Cannot delete location"]
          ELSE [pc |-> "deleteLocation", msg |-> "", id |-> id, locations |-> list]]
  /\ locations' = seedLocations(locations)
  /\ notified' = FALSE
  /\ UNCHANGED <<slotSeq, added, defaultSlots, storageOk, bookings, locationSlots, session,
                 now, nextId, forced>>

\* onConfirm of the "Delete location" dialog: filters the list read when the
\* dialog opened, saves it, then renderLocationsTable reads it back
ConfirmDeleteLocation(t) ==
  /\ tab[t].pc = "deleteLocation"
  /\ LET updated == SelectSeq(tab[t].locations, LAMBDA l : l.id # tab[t].id)
     IN locations' = seedLocations(save(locations, updated))
  /\ tab' = [tab EXCEPT ![t] = Idle]
  /\ notified' = FALSE
  /\ UNCHANGED <<slotSeq, added, defaultSlots, storageOk, bookings, locationSlots, session,
                 now, nextId, forced>>

\* onEditLocation: the Edit button of a row of the locations table; the
\* form and its onConfirm keep the list read here
EditLocationClick(t, id) ==
  /\ tab[t].pc = "idle"
  /\ LET list == ensureDefaultLocations(locations)
     IN tab' = [tab EXCEPT ![t] =
          IF ~(\E i \in DOMAIN list : list[i].id = id)
            THEN Told("Location not found")
          ELSE [pc |-> "editLocation", msg |-> "", id |-> id, locations |-> list]]
  /\ locations' = seedLocations(locations)
  /\ notified' = FALSE
  /\ UNCHANGED <<slotSeq, added, defaultSlots, storageOk, bookings, locationSlots, session,
                 now, nextId, forced>>

\* onConfirm of the Edit Location form: _validateAndCollect, the duplicate
\* name check against the other rows, then the row is replaced in the list
\* read when the form opened and that list is saved
ConfirmEditLocation(t, name, slotCapacity) ==
  /\ tab[t].pc = "editLocation"
  /\ LET valid   == name # "" /\ slotCapacity >= 1
         list    == tab[t].locations
         dup     == \E i \in DOMAIN list :
                      /\ list[i].id # tab[t].id
                      /\ toLowerCase(list[i].name) = toLowerCase(name)
         updated == [i \in DOMAIN list |->
                      IF list[i].id = tab[t].id
                        THEN [list[i] EXCEPT !.name = name, !.slotCapacity = slotCapacity]
                        ELSE list[i]]
     IN IF ~valid \/ dup
          THEN UNCHANGED locations
          ELSE locations' = seedLocations(save(locations, updated))
  /\ tab' = [tab EXCEPT ![t] = Idle]
  /\ notified' = FALSE
  /\ UNCHANGED <<slotSeq, added, defaultSlots, storageOk, bookings, locationSlots, session,
                 now, nextId, forced>>

----------------------------------------------------------------------------
(* Admin schedules *)

\* uniqueId('slot-') / uniqueId('g-') of the n-th slot created through a form
newSlotId(n) ==
  CASE n = 1 -> "slot-1"
    [] n = 2 -> "slot-2"
    [] OTHER -> "slot-3"

\* normalizeSlot for a slot whose fields are numbers and whose id has no
\* whitespace; labels are always filled in and are left out of the model
normalizeSlot(slot) ==
  [id        |-> slot.id,
   startHour |-> slot.startHour,
   endHour   |-> slot.endHour,
   minVol    |-> slot.minVol,
   maxVol    |-> slot.maxVol]

\* the validation the forms repeat (Add slot row, Save slots, Add global
\* slot): start before end, no negative minimum or maximum, minimum not
\* above a positive maximum
slotErrors(sH, eH, minV, maxV) ==
  \/ sH >= eH
  \/ minV < 0 \/ maxV < 0
  \/ (maxV > 0 /\ minV > maxV)

\* what the hour and volunteer inputs are filled with in the model
StartInputs == {16}
EndInputs == {26}
MinInputs == {5}
MaxInputs == {0}
NewSlotInputs ==
  { [startHour |-> 9,  endHour |-> 11, minVol |-> 1, maxVol |-> 4],
    [startHour |-> 22, endHour |-> 26, minVol |-> 1, maxVol |-> 4],
    [startHour |-> 11, endHour |-> 9,  minVol |-> 1, maxVol |-> 4] }

\* the rows and locations the admin works on in the model
EditSlotIds == {"2-4pm"}
RowPicks == 1..(Len(DEFAULT_SLOTS) + MaxSlots + 2)
ScheduleLocIds == {"angono-plaza"}

\* setSlotsForLocation: no validation, every slot normalised, the map saved
setSlotsForLocation(map, locationId, slotsArray) ==
  save(map, [map EXCEPT ![locationId] =
               [i \in DOMAIN slotsArray |-> normalizeSlot(slotsArray[i])]])

\* the Edit slots button of a location row: openEditSlotsModal
OpenEditSlots(t, locationId) ==
  /\ tab[t].pc = "idle"
  /\ HasLocation(locationId)
  /\ LET h == slotsHandle(locationId)
     IN tab' = [tab EXCEPT ![t] =
                  [pc |-> "editSlots", msg |-> "", locationId |-> locationId,
                   currentSlots |-> h.val, listRef |-> h.ref]]
  /\ notified' = FALSE
  /\ UNCHANGED <<slotSeq, added, locations, defaultSlots, storageOk, bookings,
                 locationSlots, session, now, nextId, forced>>

\* a write to the list the editor holds; it lands in DEFAULT_SLOTS too when
\* the list is that very array
writeCurrentSlots(t, list) ==
  /\ tab' = [tab EXCEPT ![t] = [tab[t] EXCEPT !.currentSlots = list]]
  /\ defaultSlots' = IF tab[t].listRef = "DEFAULT_SLOTS" THEN list ELSE defaultSlots

\* change handler of a row's start input
EditRowStart(t, idx, v) ==
  /\ tab[t].pc = "editSlots"
  /\ idx \in DOMAIN tab[t].currentSlots
  /\ tab[t].currentSlots[idx].id \in EditSlotIds
  /\ writeCurrentSlots(t, [tab[t].currentSlots EXCEPT ![idx].startHour = v])
  /\ notified' = FALSE
  /\ UNCHANGED <<slotSeq, added, locations, storageOk, bookings, locationSlots,
                 session, now, nextId, forced>>

\* change handler of a row's end input
EditRowEnd(t, idx, v) ==
  /\ tab[t].pc = "editSlots"
  /\ idx \in DOMAIN tab[t].currentSlots
  /\ tab[t].currentSlots[idx].id \in EditSlotIds
  /\ writeCurrentSlots(t, [tab[t].currentSlots EXCEPT ![idx].endHour = v])
  /\ notified' = FALSE
  /\ UNCHANGED <<slotSeq, added, locations, storageOk, bookings, locationSlots,
                 session, now, nextId, forced>>

\* change handler of a row's minimum input
EditRowMin(t, idx, v) ==
  /\ tab[t].pc = "editSlots"
  /\ idx \in DOMAIN tab[t].currentSlots
  /\ tab[t].currentSlots[idx].id \in EditSlotIds
  /\ writeCurrentSlots(t, [tab[t].currentSlots EXCEPT ![idx].minVol = v])
  /\ notified' = FALSE
  /\ UNCHANGED <<slotSeq, added, locations, storageOk, bookings, locationSlots,
                 session, now, nextId, forced>>

\* change handler of a row's maximum input
EditRowMax(t, idx, v) ==
  /\ tab[t].pc = "editSlots"
  /\ idx \in DOMAIN tab[t].currentSlots
  /\ tab[t].currentSlots[idx].id \in EditSlotIds
  /\ writeCurrentSlots(t, [tab[t].currentSlots EXCEPT ![idx].maxVol = v])
  /\ notified' = FALSE
  /\ UNCHANGED <<slotSeq, added, locations, storageOk, bookings, locationSlots,
                 session, now, nextId, forced>>

\* the Remove button of a row: currentSlots.splice(idx, 1)
RemoveRow(t, idx) ==
  /\ tab[t].pc = "editSlots"
  /\ idx \in DOMAIN tab[t].currentSlots
  /\ tab[t].currentSlots[idx].id \in EditSlotIds
  /\ writeCurrentSlots(t, [i \in 1..(Len(tab[t].currentSlots) - 1) |->
                             IF i < idx THEN tab[t].currentSlots[i]
                                        ELSE tab[t].currentSlots[i + 1]])
  /\ notified' = FALSE
  /\ UNCHANGED <<slotSeq, added, locations, storageOk, bookings, locationSlots,
                 session, now, nextId, forced>>

\* the Add slot button under the rows: a rejected row opens the Validation
\* dialog in place of the editor, an accepted one is pushed on the list
AddRow(t, in) ==
  /\ tab[t].pc = "editSlots"
  /\ slotSeq < MaxSlots
  /\ IF slotErrors(in.startHour, in.endHour, in.minVol, in.maxVol)
       THEN /\ tab' = [tab EXCEPT ![t] = [pc |-> "info", msg |-> "Validation"]]
            /\ UNCHANGED <<defaultSlots, slotSeq>>
       ELSE /\ writeCurrentSlots(t, Append(tab[t].currentSlots,
                 normalizeSlot([id |-> newSlotId(slotSeq + 1),
                                startHour |-> in.startHour, endHour |-> in.endHour,
                                minVol |-> in.minVol, maxVol |-> in.maxVol])))
            /\ slotSeq' = slotSeq + 1
  /\ notified' = FALSE
  /\ UNCHANGED <<added, locations, storageOk, bookings, locationSlots, session, now,
                 nextId, forced>>

\* onConfirm of the editor (Save slots): every row validated; with an error
\* nothing is stored and the dialog closes, else setSlotsForLocation
SaveSlots(t) ==
  /\ tab[t].pc = "editSlots"
  /\ LET cur  == tab[t].currentSlots
         errs == \E i \in DOMAIN cur :
                   slotErrors(cur[i].startHour, cur[i].endHour, cur[i].minVol, cur[i].maxVol)
     IN locationSlots' = IF errs THEN locationSlots
                         ELSE setSlotsForLocation(locationSlots, tab[t].locationId, cur)
  /\ tab' = [tab EXCEPT ![t] = Idle]
  /\ notified' = FALSE
  /\ UNCHANGED <<slotSeq, added, locations, defaultSlots, storageOk, bookings, session,
                 now, nextId, forced>>

\* the Reset to defaults button of a location row
ResetClick(t, locationId) ==
  /\ tab[t].pc = "idle"
  /\ HasLocation(locationId)
  /\ tab' = [tab EXCEPT ![t] = [pc |-> "resetSlots", msg |-> "", locationId |-> locationId]]
  /\ notified' = FALSE
  /\ UNCHANGED <<slotSeq, added, locations, defaultSlots, storageOk, bookings,
                 locationSlots, session, now, nextId, forced>>

\* onConfirm of "Reset slots": mapNow[locId] = DEFAULT_SLOTS.map(clone)
ConfirmReset(t) ==
  /\ tab[t].pc = "resetSlots"
  /\ locationSlots' = save(locationSlots,
                           [locationSlots EXCEPT ![tab[t].locationId] = clonedDefaults.val])
  /\ tab' = [tab EXCEPT ![t] = Idle]
  /\ notified' = FALSE
  /\ UNCHANGED <<slotSeq, added, locations, defaultSlots, storageOk, bookings, session,
                 now, nextId, forced>>

\* the Apply defaults to all button
ApplyDefaultsClick(t) ==
  /\ tab[t].pc = "idle"
  /\ tab' = [tab EXCEPT ![t] = [pc |-> "applyDefaults", msg |-> ""]]
  /\ notified' = FALSE
  /\ UNCHANGED <<slotSeq, added, locations, defaultSlots, storageOk, bookings,
                 locationSlots, session, now, nextId, forced>>

\* onConfirm of "Apply defaults": a new map with the cloned defaults for
\* every stored location and nothing for any other id
ConfirmApplyDefaults(t) ==
  /\ tab[t].pc = "applyDefaults"
  /\ locationSlots' = save(locationSlots,
                           [l \in AllLocIds |->
                              IF HasLocation(l) THEN clonedDefaults.val ELSE << >>])
  /\ tab' = [tab EXCEPT ![t] = Idle]
  /\ notified' = FALSE
  /\ UNCHANGED <<slotSeq, added, locations, defaultSlots, storageOk, bookings, session,
                 now, nextId, forced>>

\* the Add global slot button: openAddGlobalSlotModal
AddGlobalClick(t) ==
  /\ tab[t].pc = "idle"
  /\ tab' = [tab EXCEPT ![t] = [pc |-> "addGlobal", msg |-> ""]]
  /\ notified' = FALSE
  /\ UNCHANGED <<slotSeq, added, locations, defaultSlots, storageOk, bookings,
                 locationSlots, session, now, nextId, forced>>

\* onConfirm of "Add global time slot": an accepted slot is pushed on the
\* in-memory DEFAULT_SLOTS; the "Apply to locations" dialog it then opens is
\* hidden at once by the close() that follows onConfirm
ConfirmAddGlobal(t, in) ==
  /\ tab[t].pc = "addGlobal"
  /\ slotSeq < MaxSlots
  /\ IF slotErrors(in.startHour, in.endHour, in.minVol, in.maxVol)
       THEN UNCHANGED <<defaultSlots, slotSeq>>
       ELSE /\ defaultSlots' = Append(defaultSlots,
                 normalizeSlot([id |-> newSlotId(slotSeq + 1),
                                startHour |-> in.startHour, endHour |-> in.endHour,
                                minVol |-> in.minVol, maxVol |-> in.maxVol]))
            /\ slotSeq' = slotSeq + 1
  /\ tab' = [tab EXCEPT ![t] = Idle]
  /\ notified' = FALSE
  /\ UNCHANGED <<added, locations, storageOk, bookings, locationSlots, session, now,
                 nextId, forced>>

\* the slots handed to the exported functions in the model
ApiSlots ==
  { [id |-> "9-11am", startHour |-> 9,  endHour |-> 11, minVol |-> 1, maxVol |-> 4],
    [id |-> "late",   startHour |-> 22, endHour |-> 26, minVol |-> 5, maxVol |-> 4] }

\* AdminSchedules.setSlotsForLocation(locationId, [slot])
ApiSetSlots(locationId, slot) ==
  /\ locationSlots' = setSlotsForLocation(locationSlots, locationId, <<slot>>)
  /\ notified' = FALSE
  /\ UNCHANGED <<slotSeq, added, locations, defaultSlots, storageOk, bookings, session,
                 now, nextId, tab, forced>>

\* AdminSchedules.addSlotToLocation(locationId, slot): the stored list when
\* there is one (an empty one too), else what getSlotsForLocation returns;
\* the slot is pushed on that list and the list stored
addSlotToLocation(locationId, slot) ==
  LET list   == slotsHandle(locationId)
      pushed == Append(list.val, normalizeSlot(slot))
  IN /\ defaultSlots' = IF list.ref = "DEFAULT_SLOTS" THEN pushed ELSE defaultSlots
     /\ locationSlots' = save(locationSlots, [locationSlots EXCEPT ![locationId] = pushed])

ApiAddSlot(locationId, slot) ==
  /\ ~HasSlot(getSlotsForLocation(locationId), slot.id)
  /\ addSlotToLocation(locationId, slot)
  /\ notified' = FALSE
  /\ UNCHANGED <<slotSeq, added, locations, storageOk, bookings, session, now, nextId,
                 tab, forced>>

\* AdminSchedules.removeSlotFromLocation(locationId, slotId): only a
\* location with a stored list is touched
ApiRemoveSlot(locationId, slotId) ==
  /\ Len(locationSlots[locationId]) > 0
  /\ locationSlots' = save(locationSlots,
       [locationSlots EXCEPT ![locationId] = SelectSeq(@, LAMBDA sl : sl.id # slotId)])
  /\ notified' = FALSE
  /\ UNCHANGED <<slotSeq, added, locations, defaultSlots, storageOk, bookings, session,
                 now, nextId, tab, forced>>

\* AdminSchedules.updateSlotForLocation(locationId, slotId, patch) with a
\* patch of the two hours
ApiUpdateSlot(locationId, slotId, sH, eH) ==
  /\ HasSlot(locationSlots[locationId], slotId)
  /\ locationSlots' = save(locationSlots,
       [locationSlots EXCEPT ![locationId] =
          [i \in DOMAIN @ |->
             IF @[i].id = slotId
               THEN normalizeSlot([@[i] EXCEPT !.startHour = sH, !.endHour = eH])
               ELSE @[i]]])
  /\ notified' = FALSE
  /\ UNCHANGED <<slotSeq, added, locations, defaultSlots, storageOk, bookings, session,
                 now, nextId, tab, forced>>

----------------------------------------------------------------------------
(* Specifications *)

\* the tab that runs every handler of the application in Spec
MainTab == "tabA"

\* One browser tab running every handler of the three modules, at one
\* instant of the clock.
Next ==
  \/ \E u \in Users : Login(u)
  \/ \E t \in {MainTab} : Close(t)
  \/ \E t \in {MainTab}, l \in PickLocIds, d \in Dates, s \in PickSlotIds : OpenLocationModal(t, l, d, s)
  \/ \E t \in {MainTab} : ClickBook(t)
  \/ \E t \in {MainTab} : ConfirmBook(t)
  \/ \E t \in {MainTab} : ClickCancel(t)
  \/ \E t \in {MainTab} : ConfirmCancel(t)
  \/ \E t \in {MainTab}, l \in PickLocIds, d \in Dates, s \in PickSlotIds : SelectSlot(t, l, d, s)
  \/ \E t \in {MainTab} : ClickConfirmBooking(t)
  \/ \E t \in {MainTab} : ConfirmStepBooking(t)
  \/ \E t \in {MainTab}, i \in 1..MaxBookings : RenderMyAssignments(t, i)
  \/ \E t \in {MainTab} : ClickCancelMine(t)
  \/ \E t \in {MainTab} : ConfirmCancelMine(t)
  \/ \E t \in {MainTab}, v \in VolIds, l \in PickLocIds, d \in Dates, s \in PickSlotIds : AdminDrop(t, v, l, d, s)
  \/ \E t \in {MainTab} : ConfirmAssignAnyway(t)
  \/ \E t \in {MainTab}, l \in PickLocIds, d \in Dates, s \in PickSlotIds : OpenManualAssign(t, l, d, s)
  \/ \E t \in {MainTab}, v \in VolIds : ConfirmManualAssign(t, v)
  \/ \E t \in {MainTab}, sel \in SUBSET VolIds, l \in PickLocIds, d \in Dates, s \in PickSlotIds :
        AdminBulkAssign(t, sel, l, d, s)
  \/ \E t \in {MainTab} : ConfirmBulkAnyway(t)
  \/ \E t \in {MainTab}, i \in 1..MaxBookings : AdminRemoveClick(t, i)
  \/ \E t \in {MainTab} : ConfirmRemove(t)
  \/ \E t \in {MainTab}, i \in 1..MaxBookings : GenerateReport(t, i)
  \/ \E t \in {MainTab} : ReportCheckIn(t)
  \/ \E t \in {MainTab} : ReportNoShow(t)
  \/ \E t \in {MainTab} : ReportRemoveClick(t)
  \/ \E t \in {MainTab} : ConfirmReportRemove(t)

Spec == Init /\ [][Next]_vars

\* Two tabs, each running the self-booking handlers of the volunteer
\* dashboard against the shared booking array.
NextSessions ==
  \/ \E u \in Users : Login(u)
  \/ \E t \in Tabs : Close(t)
  \/ \E t \in Tabs, l \in PickLocIds, d \in Dates, s \in PickSlotIds : OpenLocationModal(t, l, d, s)
  \/ \E t \in Tabs : ClickBook(t)
  \/ \E t \in Tabs : ConfirmBook(t)
  \/ \E t \in Tabs, l \in PickLocIds, d \in Dates, s \in PickSlotIds : SelectSlot(t, l, d, s)
  \/ \E t \in Tabs : ClickConfirmBooking(t)
  \/ \E t \in Tabs : ConfirmStepBooking(t)

SpecSessions == Init /\ [][NextSessions]_vars

\* Two tabs running the assignment handlers of the admin grid, and the
\* removal of bookings from the admin reports.
NextAssign ==
  \/ \E t \in Tabs : Close(t)
  \/ \E t \in Tabs, v \in VolIds, l \in PickLocIds, d \in Dates, s \in PickSlotIds : AdminDrop(t, v, l, d, s)
  \/ \E t \in Tabs : ConfirmAssignAnyway(t)
  \/ \E t \in Tabs, l \in PickLocIds, d \in Dates, s \in PickSlotIds : OpenManualAssign(t, l, d, s)
  \/ \E t \in Tabs, v \in VolIds : ConfirmManualAssign(t, v)
  \/ \E t \in Tabs, sel \in SUBSET VolIds, l \in PickLocIds, d \in Dates, s \in PickSlotIds :
        AdminBulkAssign(t, sel, l, d, s)
  \/ \E t \in Tabs : ConfirmBulkAnyway(t)
  \/ \E t \in Tabs, i \in 1..MaxBookings : GenerateReport(t, i)
  \/ \E t \in Tabs : ReportRemoveClick(t)
  \/ \E t \in Tabs : ConfirmReportRemove(t)

SpecAssign == Init /\ [][NextAssign]_vars

\* One tab running the self-booking and self-cancellation handlers of the
\* volunteer dashboard while the clock advances.
NextCancel ==
  \/ \E u \in Users : Login(u)
  \/ Tick
  \/ \E t \in {MainTab} : Close(t)
  \/ \E t \in {MainTab}, l \in PickLocIds, d \in Dates, s \in PickSlotIds : OpenLocationModal(t, l, d, s)
  \/ \E t \in {MainTab} : ClickBook(t)
  \/ \E t \in {MainTab} : ConfirmBook(t)
  \/ \E t \in {MainTab} : ClickCancel(t)
  \/ \E t \in {MainTab} : ConfirmCancel(t)
  \/ \E t \in {MainTab}, i \in 1..MaxBookings : RenderMyAssignments(t, i)
  \/ \E t \in {MainTab} : ClickCancelMine(t)
  \/ \E t \in {MainTab} : ConfirmCancelMine(t)

SpecCancel == Init /\ [][NextCancel]_vars

\* the locations table in two admin tabs, next to the assignments grid
LocationPickIds == {"pritil-exit", customId(1)}

NextLocations ==
  \/ \E t \in Tabs : AddLocationClick(t)
  \/ \E t \in Tabs : \E name \in LocNames : \E c \in LocCapacities :
       ConfirmAddLocation(t, name, c)
  \/ \E t \in Tabs : \E l \in LocationPickIds : DeleteLocationClick(t, l)
  \/ \E t \in Tabs : ConfirmDeleteLocation(t)
  \/ \E t \in Tabs : \E v \in {"vol-jose"} : \E l \in LocationPickIds :
       \E d \in Dates : \E s \in {"2-4pm"} : AdminDrop(t, v, l, d, s)
  \/ \E t \in Tabs : ConfirmAssignAnyway(t)
  \/ \E t \in Tabs : Close(t)

SpecLocations == Init /\ [][NextLocations]_vars

\* one admin tab on the schedules panel and the exported schedule functions
NextSchedules ==
  \/ \E l \in ScheduleLocIds : OpenEditSlots(MainTab, l)
  \/ \E i \in RowPicks : \E v \in StartInputs : EditRowStart(MainTab, i, v)
  \/ \E i \in RowPicks : \E v \in EndInputs : EditRowEnd(MainTab, i, v)
  \/ \E i \in RowPicks : \E v \in MinInputs : EditRowMin(MainTab, i, v)
  \/ \E i \in RowPicks : \E v \in MaxInputs : EditRowMax(MainTab, i, v)
  \/ \E i \in RowPicks : RemoveRow(MainTab, i)
  \/ \E in \in NewSlotInputs : AddRow(MainTab, in)
  \/ SaveSlots(MainTab)
  \/ \E l \in ScheduleLocIds : ResetClick(MainTab, l)
  \/ ConfirmReset(MainTab)
  \/ ApplyDefaultsClick(MainTab)
  \/ ConfirmApplyDefaults(MainTab)
  \/ AddGlobalClick(MainTab)
  \/ \E in \in NewSlotInputs : ConfirmAddGlobal(MainTab, in)
  \/ \E l \in ScheduleLocIds : \E sl \in ApiSlots : ApiSetSlots(l, sl)
  \/ \E l \in ScheduleLocIds : \E sl \in ApiSlots : ApiAddSlot(l, sl)
  \/ \E l \in ScheduleLocIds : \E s \in EditSlotIds : ApiRemoveSlot(l, s)
  \/ \E l \in ScheduleLocIds : \E s \in EditSlotIds :
       \E sH \in StartInputs : \E eH \in EndInputs : ApiUpdateSlot(l, s, sH, eH)
  \/ Close(MainTab)

SpecSchedules == Init /\ [][NextSchedules]_vars

\* the same page with a volunteer booking the slot the admin works on
NextBookedSchedules ==
  \/ NextSchedules
  \/ \E u \in {"volunteer"} : Login(u)
  \/ \E l \in ScheduleLocIds, d \in Dates, s \in EditSlotIds :
       OpenLocationModal(MainTab, l, d, s)
  \/ ClickBook(MainTab)
  \/ ConfirmBook(MainTab)

SpecBookedSchedules == Init /\ [][NextBookedSchedules]_vars

\* a volunteer tab booking while an admin tab edits the slots of the location
NextStaleCatalog ==
  \/ \E u \in {"volunteer"} : Login(u)
  \/ \E l \in ScheduleLocIds, d \in Dates, s \in PickSlotIds :
       OpenLocationModal("tabA", l, d, s)
  \/ ClickBook("tabA")
  \/ ConfirmBook("tabA")
  \/ \E l \in ScheduleLocIds : OpenEditSlots("tabB", l)
  \/ \E i \in RowPicks : RemoveRow("tabB", i)
  \/ SaveSlots("tabB")
  \/ \E t \in Tabs : Close(t)

SpecStaleCatalog == Init /\ [][NextStaleCatalog]_vars

\* one tab booking and assigning while storage may start to fail
NextStorage ==
  \/ StorageFails
  \/ \E u \in Users : Login(u)
  \/ \E l \in PickLocIds, d \in Dates, s \in PickSlotIds :
       OpenLocationModal(MainTab, l, d, s)
  \/ ClickBook(MainTab)
  \/ ConfirmBook(MainTab)
  \/ \E l \in PickLocIds, d \in Dates, s \in PickSlotIds : SelectSlot(MainTab, l, d, s)
  \/ ClickConfirmBooking(MainTab)
  \/ ConfirmStepBooking(MainTab)
  \/ \E v \in VolIds, l \in PickLocIds, d \in Dates, s \in PickSlotIds :
       AdminDrop(MainTab, v, l, d, s)
  \/ ConfirmAssignAnyway(MainTab)
  \/ Close(MainTab)

SpecStorage == Init /\ [][NextStorage]_vars

\* one tab: signing in, booking, reloading the page
NextReload ==
  \/ \E u \in Users : Login(u)
  \/ Reload(MainTab)
  \/ \E l \in PickLocIds, d \in Dates, s \in PickSlotIds :
       OpenLocationModal(MainTab, l, d, s)
  \/ ClickBook(MainTab)
  \/ ConfirmBook(MainTab)
  \/ Close(MainTab)

SpecReload == Init /\ [][NextReload]_vars

\* two admin tabs: the assignments grid and the report with its row buttons
NextReports ==
  \/ \E t \in Tabs, v \in {"vol-jose"}, l \in {"angono-plaza"}, d \in Dates, s \in PickSlotIds :
       AdminDrop(t, v, l, d, s)
  \/ \E t \in Tabs : ConfirmAssignAnyway(t)
  \/ \E t \in Tabs, i \in 1..MaxBookings : GenerateReport(t, i)
  \/ \E t \in Tabs : ReportCheckIn(t)
  \/ \E t \in Tabs : ReportNoShow(t)
  \/ \E t \in Tabs : ReportRemoveClick(t)
  \/ \E t \in Tabs : ConfirmReportRemove(t)
  \/ \E t \in Tabs : Close(t)

SpecReports == Init /\ [][NextReports]_vars

\* the Edit Location form in two admin tabs, next to the assignments grid
EditLocIds == {"angono-plaza"}

NextEditLocation ==
  \/ \E t \in Tabs : \E l \in EditLocIds : EditLocationClick(t, l)
  \/ \E t \in Tabs : \E name \in LocNames : \E c \in LocCapacities :
       ConfirmEditLocation(t, name, c)
  \/ \E t \in Tabs : \E v \in VolIds : \E l \in EditLocIds :
       \E d \in Dates : \E s \in {"2-4pm"} : AdminDrop(t, v, l, d, s)
  \/ \E t \in Tabs : ConfirmAssignAnyway(t)
  \/ \E t \in Tabs : Close(t)

SpecEditLocation == Init /\ [][NextEditLocation]_vars

\* the locations table alone in two admin tabs: add, edit and delete
NextLocationList ==
  \/ \E t \in Tabs : AddLocationClick(t)
  \/ \E t \in Tabs : \E name \in LocNames : \E c \in LocCapacities :
       ConfirmAddLocation(t, name, c)
  \/ \E t \in Tabs : \E l \in LocationPickIds : EditLocationClick(t, l)
  \/ \E t \in Tabs : \E name \in LocNames : \E c \in LocCapacities :
       ConfirmEditLocation(t, name, c)
  \/ \E t \in Tabs : \E l \in LocationPickIds : DeleteLocationClick(t, l)
  \/ \E t \in Tabs : ConfirmDeleteLocation(t)
  \/ \E t \in Tabs : Close(t)

SpecLocationList == Init /\ [][NextLocationList]_vars

\* one tab: volunteers book for themselves, the admin grid shows the badges
NextBadges ==
  \/ \E u \in Users : Login(u)
  \/ \E l \in PickLocIds, d \in Dates, s \in PickSlotIds :
       OpenLocationModal(MainTab, l, d, s)
  \/ ClickBook(MainTab)
  \/ ConfirmBook(MainTab)
  \/ \E i \in 1..MaxBookings : RenderBadge(MainTab, i)
  \/ Close(MainTab)

SpecBadges == Init /\ [][NextBadges]_vars

\* one tab: the volunteer account books for itself and the admin assigns the
\* directory entry of the same person
NextBothPaths ==
  \/ Login("volunteer")
  \/ \E l \in PickLocIds, d \in Dates, s \in PickSlotIds :
       OpenLocationModal(MainTab, l, d, s)
  \/ ClickBook(MainTab)
  \/ ConfirmBook(MainTab)
  \/ \E l \in PickLocIds, d \in Dates, s \in PickSlotIds :
       AdminDrop(MainTab, newVol.id, l, d, s)
  \/ ConfirmAssignAnyway(MainTab)
  \/ Close(MainTab)

SpecBothPaths == Init /\ [][NextBothPaths]_vars

----------------------------------------------------------------------------
(* Claims *)

\* a booking counts as active when its status is assigned or checked-in; a
\* record without a status field is read as assigned (admin-reports.js)
IsActive(b) == b.status \in {Undefined, "assigned", "checked-in"}

\* the hours a booking occupies: those of its slot in the catalog of its
\* location, else the hours stored on the record
HoursOf(b) == slotRange(existingSlotOf(b))

\* the bookings of `all` that occupy the catalog slot slotId of a location
InTriple(all, locationId, dateStr, slotId) ==
  LET r == slotRange(FindSlot(getSlotsForLocation(locationId), slotId))
  IN { i \in DOMAIN all : /\ all[i].locationId = locationId
                          /\ all[i].date = dateStr
                          /\ HoursOf(all[i]) = r }

ActiveInTriple(all, locationId, dateStr, slotId) ==
  { i \in InTriple(all, locationId, dateStr, slotId) : IsActive(all[i]) }

\* the records of bookings' whose id was handed out by this step
Created == { i \in DOMAIN bookings' : bookings'[i].id >= nextId }

\* C1: for every (location, date, slot) the number of bookings with status
\* assigned or checked-in never exceeds the capacity of the location,
\* whichever of the booking and assignment paths created them.
C1_CapacityInvariant ==
  \A l \in LocIds, d \in Dates, s \in PickSlotIds :
    Cardinality(ActiveInTriple(bookings, l, d, s)) <= findLocationById(l).slotCapacity

\* C2: two active bookings of one volunteer on one date overlap in time only
\* if the later one was created by an explicit double-booking confirmation.
C2_ConflictInvariant ==
  \A i, j \in DOMAIN bookings :
    ( /\ bookings[i].id < bookings[j].id
      /\ bookings[i].username = bookings[j].username
      /\ bookings[i].date = bookings[j].date
      /\ IsActive(bookings[i]) /\ IsActive(bookings[j])
      /\ rangesOverlap(HoursOf(bookings[i]).start, HoursOf(bookings[i]).end,
                       HoursOf(bookings[j]).start, HoursOf(bookings[j]).end) )
    => bookings[j].id \in forced

\* C3: no volunteer ever holds two active bookings for the same
\* (location, date, slot): the second attempt is rejected on every path.
C3_OneBookingPerTriple ==
  \A l \in LocIds, d \in Dates, s \in PickSlotIds :
    \A i, j \in ActiveInTriple(bookings, l, d, s) :
      bookings[i].username = bookings[j].username => i = j

\* C4: two sessions booking concurrently into the same (location, date,
\* slot) behave as if serialized: the slot never holds more bookings than
\* the capacity of its location.
C4_SerializedBooking ==
  \A l \in LocIds, d \in Dates, s \in PickSlotIds :
    Len(getBookingsFor(bookings, l, d, s)) <= findLocationById(l).slotCapacity

\* C5: once a (location, date, slot) holds as many active bookings as the
\* capacity of its location, no step adds another booking to it.
C5_FullSlotRejects ==
  [][ \A l \in LocIds, d \in Dates, s \in PickSlotIds :
        Cardinality(ActiveInTriple(bookings, l, d, s)) >= findLocationById(l).slotCapacity
          => Cardinality(ActiveInTriple(bookings', l, d, s))
               <= Cardinality(ActiveInTriple(bookings, l, d, s)) ]_vars

\* an earlier booking of the same volunteer on the same date that overlaps b
Overlapping(all, b) ==
  { i \in DOMAIN all : /\ all[i].volunteerId = b.volunteerId
                       /\ all[i].date = b.date
                       /\ all[i].id # b.id
                       /\ HoursOf(all[i]).start < HoursOf(b).end
                       /\ HoursOf(b).start < HoursOf(all[i]).end }

\* C6: an assignment for which the persisted bookings hold an overlapping
\* booking of the volunteer is persisted by no step but the confirmation of
\* the override dialog; the step that detects the overlap persists nothing;
\* and the confirmation persists every assignment the dialog was opened for.
C6_OverrideOnlyAfterConfirmation ==
  [][ /\ \A i \in Created :
           Overlapping(bookings, bookings'[i]) # {}
             => /\ bookings'[i].id \in forced'
                /\ \E t \in Tabs : /\ tab[t].pc \in {"dropConflict", "bulkConflict"}
                                   /\ tab'[t].pc = "idle"
      /\ \A t \in Tabs :
           (tab[t].pc = "idle" /\ tab'[t].pc \in {"dropConflict", "bulkConflict"})
             => bookings' = bookings
      /\ \A t \in Tabs :
           (tab[t].pc = "dropConflict" /\ tab'[t].pc = "idle" /\ forced' # forced)
             => /\ Len(bookings') = Len(bookings) + 1
                /\ \E i \in Created : /\ bookings'[i].volunteerId = tab[t].vol.id
                                      /\ bookings'[i].locationId = tab[t].loc.id
                                      /\ bookings'[i].date = tab[t].date
                                      /\ bookings'[i].startHour = tab[t].slotObj.startHour
      /\ \A t \in Tabs :
           (tab[t].pc = "bulkConflict" /\ tab'[t].pc = "idle" /\ forced' # forced)
             => /\ Len(bookings') = Len(bookings) + Len(tab[t].toAssign)
                /\ \A k \in DOMAIN tab[t].toAssign :
                     \E i \in Created : /\ bookings'[i].volunteerId = tab[t].toAssign[k].id
                                        /\ bookings'[i].locationId = tab[t].location.id
                                        /\ bookings'[i].date = tab[t].date
                                        /\ bookings'[i].startHour = tab[t].slotObj.startHour ]_vars

\* a confirmed override is persisted next to the booking it overlaps
C6_Witness ==
  \E i \in DOMAIN bookings :
    /\ bookings[i].id \in forced
    /\ Overlapping(bookings, bookings[i]) # {}

\* minutes left until the start of the slot of the booking with that id
Remaining(bid) ==
  LET b == bookings[CHOOSE i \in DOMAIN bookings : bookings[i].id = bid]
  IN (FindSlot(getSlotsForLocation(b.locationId), b.slotId).startHour * 60) - now

\* the id of the signed-in user's booking shown by the open slot card
CardBooking(t) ==
  bookings[CHOOSE i \in DOMAIN bookings :
             /\ bookings[i].username = tab[t].user
             /\ bookings[i].locationId = tab[t].loc.id
             /\ bookings[i].date = tab[t].date
             /\ bookings[i].slotId = tab[t].ts.id].id

C8_CancelKeepsRecord ==
  [][ \A t \in Tabs :
        ( /\ tab[t].pc \in {"cancelConfirm", "myCancelConfirm"}
          /\ tab'[t].pc = "idle"
          /\ bookings' # bookings )
        => \E i \in DOMAIN bookings' : /\ bookings'[i].id = tab[t].bid
                                       /\ bookings'[i].status = "cancelled" ]_vars

\* C9: a booking starts as assigned, and once its status is checked-in,
\* no-show or cancelled no step changes it to another value.
C9_TerminalStatus ==
  [][ /\ \A i \in Created : bookings'[i].status \in {Undefined, "assigned"}
      /\ \A i \in DOMAIN bookings, j \in DOMAIN bookings' :
           ( /\ bookings[i].id = bookings'[j].id
             /\ bookings[i].status \in {"checked-in", "no-show", "cancelled"} )
           => bookings'[j].status = bookings[i].status ]_vars

\* C10: every booking carries the status assigned and its creation time
\* from the step that persists it.
C10_CreatedAssigned ==
  [][ \A i \in Created : /\ bookings'[i].status = "assigned"
                         /\ bookings'[i].createdAt = now ]_vars

\* C11: only bookings with status assigned or checked-in occupy a slot: a
\* slot card rendered for a signed-in user who holds no active booking of
\* the slot, while the active bookings of the slot are below the capacity,
\* offers the booking (its Book button is enabled).
C11_InactiveFreesCapacity ==
  \A t \in {MainTab} :
    ( /\ tab[t].pc = "grid"
      /\ tab[t].user # Undefined
      /\ \A i \in ActiveInTriple(bookings, tab[t].loc.id, tab[t].date, tab[t].ts.id) :
           bookings[i].username # tab[t].user
      /\ Cardinality(ActiveInTriple(bookings, tab[t].loc.id, tab[t].date, tab[t].ts.id))
           < tab[t].loc.slotCapacity )
    => /\ tab[t].assigned < tab[t].loc.slotCapacity
       /\ ~tab[t].alreadyBooked

\* C12: a conflict is reported (the double-booking dialog of a drop, the
\* conflict dialog of a bulk assignment) only when an active booking of the
\* volunteer on that date overlaps the new slot.
C12_ConflictOnlyWithActive ==
  [][ \A t \in Tabs :
        /\ (tab[t].pc = "idle" /\ tab'[t].pc = "dropConflict")
             => \E i \in Overlapping(bookings,
                           makeBooking(tab'[t].vol, tab'[t].loc, tab'[t].slotObj, tab'[t].date, 0)) :
                  IsActive(bookings[i])
        /\ (tab[t].pc = "idle" /\ tab'[t].pc = "bulkConflict")
             => \E k \in DOMAIN tab'[t].toAssign :
                  \E i \in Overlapping(bookings,
                             makeBooking(tab'[t].toAssign[k], tab'[t].location,
                                         tab'[t].slotObj, tab'[t].date, 0)) :
                    IsActive(bookings[i]) ]_vars

\* C13: every step that changes the stored booking set (a new booking, a
\* cancellation, a check-in, a no-show, a removal) dispatches the
\* cvsa:bookings:updated notification, in whichever module it happens.
C13_MutationNotifies ==
  [][ bookings' # bookings => notified' ]_vars

\* C16: every persisted booking's location exists in the stored location
\* list, whatever bookings and location deletions happened before.
C16_BookedLocationExists ==
  \A i \in DOMAIN bookings : HasLocation(bookings[i].locationId)

\* C14: a step that changes a location's slot catalog leaves the stored
\* bookings as they are and leaves the hours used for each of them (the
\* range conflict detection compares it by) what they were before the step.
C14_CatalogChangeKeepsBookingHours ==
  [][ locationSlots' # locationSlots
        => /\ bookings' = bookings
           /\ \A i \in DOMAIN bookings : HoursOf(bookings[i])' = HoursOf(bookings[i]) ]_vars

\* the TimeSlot invariant: start before end, both hours within [0,24], and
\* the minimum not above a positive maximum
ValidSlot(sl) ==
  /\ sl.startHour < sl.endHour
  /\ 0 <= sl.startHour /\ sl.endHour <= 24
  /\ (sl.maxVol > 0 => sl.minVol <= sl.maxVol)

\* C15: every slot stored for any location satisfies the TimeSlot invariant.
C15_StoredSlotsValid ==
  \A l \in AllLocIds : \A i \in DOMAIN locationSlots[l] : ValidSlot(locationSlots[l][i])

\* C19: when the "Reset slots" confirmation has stored a list for the
\* location, the slots of that location are exactly the seven standard
\* two-hour blocks.
C19_ResetGivesSevenBlocks ==
  [][ \A t \in Tabs :
        \A l \in AllLocIds :
          ( /\ tab[t].pc = "resetSlots" /\ tab[t].locationId = l
            /\ tab'[t].pc = "idle" /\ locationSlots'[l] # locationSlots[l] )
            => getSlotsForLocation(l)' = DEFAULT_SLOTS ]_vars

\* C20: writing to a list that getSlotsForLocation returned (the rows of the
\* slot editor, the push of addSlotToLocation) changes neither the default
\* set nor what is returned for a location that has no custom slots; the
\* default set changes in the "Add global time slot" confirmation only.
C20_ReturnedListIsFresh ==
  [][ (\A t \in Tabs : tab[t].pc # "addGlobal")
        => /\ defaultSlots' = defaultSlots
           /\ \A l \in AllLocIds :
                (locationSlots[l] = << >> /\ locationSlots'[l] = << >>)
                  => getSlotsForLocation(l)' = getSlotsForLocation(l) ]_vars

\* C20 witness: the editor holds a changed list for a location without
\* custom slots while the default set is still the seven standard slots.
C20_Witness ==
  /\ tab[MainTab].pc = "editSlots"
  /\ locationSlots[tab[MainTab].locationId] = << >>
  /\ tab[MainTab].currentSlots # defaultSlots
  /\ defaultSlots = DEFAULT_SLOTS

\* C17: a booking confirmation ("Booking confirmed") is reported by a
\* confirm step only when that step wrote the new booking to storage.
C17_ConfirmedOnlyWhenWritten ==
  [][ \A t \in Tabs :
        ( /\ tab[t].pc \in {"bookConfirm", "stepConfirm"}
          /\ tab'[t].msg = "Booking confirmed" )
          => bookings' # bookings ]_vars

\* C18: a booking is persisted only for a slot that is in the catalog of its
\* location at the moment it is persisted.
C18_BookedSlotInCatalog ==
  [][ \A i \in Created :
        HasSlot(getSlotsForLocation(bookings'[i].locationId), bookings'[i].slotId) ]_vars

\* the half-open comparison of two hour ranges
HalfOpenOverlap(r1, r2) == r1.start < r2.end /\ r2.start < r1.end

\* C21: the drop handler reports a conflict only when some booking of the
\* date overlaps the new slot as half-open intervals, and persists an
\* assignment without asking only when none of the volunteer's bookings it
\* compares overlaps it that way; slots that only touch never conflict.
C21_HalfOpenIntervals ==
  [][ /\ \A t \in Tabs :
           (tab[t].pc = "idle" /\ tab'[t].pc = "dropConflict")
             => \E i \in DOMAIN bookings :
                  /\ bookings[i].date = tab'[t].date
                  /\ HalfOpenOverlap(slotRange(tab'[t].slotObj), HoursOf(bookings[i]))
      /\ (forced' = forced)
           => \A i \in Created :
                LET mine == getAssignmentsForVolunteerOnDate(bookings,
                              bookings'[i].volunteerId, bookings'[i].date)
                IN \A k \in DOMAIN mine :
                     ~HalfOpenOverlap(slotRange(bookings'[i]), HoursOf(mine[k])) ]_vars

\* C21 witness: one volunteer holds two bookings on a date, one ending at the
\* hour the other starts, and no override was confirmed.
C21_Witness ==
  /\ forced = {}
  /\ \E i, j \in DOMAIN bookings :
       /\ bookings[i].volunteerId = bookings[j].volunteerId
       /\ bookings[i].date = bookings[j].date
       /\ HoursOf(bookings[i]).end = HoursOf(bookings[j]).start

\* the notice the README asks for, in minutes
NOTICE_24H == 24 * 60

\* C22: a volunteer's cancellation is offered for confirmation only when at
\* least 24 hours remain before the start of the slot.
C22_Needs24HoursNotice ==
  [][ \A t \in Tabs :
        /\ (tab[t].pc = "grid" /\ tab'[t].pc = "cancelConfirm")
             => Remaining(CardBooking(t)) >= NOTICE_24H
        /\ (tab[t].pc = "myAssign" /\ tab'[t].pc = "myCancelConfirm")
             => Remaining(tab[t].bid) >= NOTICE_24H ]_vars

\* C23: what is stored stays stored over a page reload: no step of signing
\* in, booking or reloading drops the stored session or a stored booking, and
\* a reload with a stored session does not end on the login page.
C23_SessionSurvivesReload ==
  [][ /\ session # Undefined => session' # Undefined
      /\ bookings # << >> => bookings' # << >>
      /\ \A t \in Tabs :
           (session # Undefined /\ tab[t].msg # "login-page")
             => tab'[t].msg # "login-page" ]_vars

\* the ids of the stored bookings
IdsOf(all) == { all[i].id : i \in DOMAIN all }

\* C24: a booking that is not in the persisted set and whose id was handed
\* out before (it was removed) is in the persisted set after no step.
C24_RemovedStaysRemoved ==
  [][ \A id \in 1..(nextId - 1) : id \notin IdsOf(bookings) => id \notin IdsOf(bookings') ]_vars

\* the stored booking with that id
Stored(all, id) == all[CHOOSE i \in DOMAIN all : all[i].id = id]

\* C25: a check-in or no-show of one session keeps what the other session
\* wrote: the step neither adds nor drops a booking, leaves every other
\* booking as stored, and changes nothing of its own booking but the status
\* (and, for a check-in, the check-in time).
C25_WritesKeepOtherChanges ==
  [][ \A t \in Tabs :
        (tab[t].pc = "report" /\ tab'[t].pc = "idle" /\ bookings' # bookings)
          => /\ IdsOf(bookings') = IdsOf(bookings)
             /\ \A id \in IdsOf(bookings) :
                  IF id # tab[t].bk.id
                    THEN Stored(bookings', id) = Stored(bookings, id)
                    ELSE \/ Stored(bookings', id) =
                              [Stored(bookings, id) EXCEPT !.status = "no-show"]
                         \/ Stored(bookings', id) =
                              [Stored(bookings, id) EXCEPT !.status = "checked-in",
                                                           !.checkedInAt = now] ]_vars

\* C28: a persisted booking has a check-in time exactly when its status is
\* checked-in.
C28_CheckInTimeIffCheckedIn ==
  \A i \in DOMAIN bookings :
    (bookings[i].checkedInAt # NoNumber) <=> (bookings[i].status = "checked-in")

\* the capacity of a stored location
CapacityOf(list, id) ==
  list[CHOOSE i \in DOMAIN list : list[i].id = id].slotCapacity

\* C29: a step that lowers the capacity of a stored location leaves no
\* (date, slot) of that location with more active bookings than the new
\* capacity.
C29_EditKeepsCapacityAboveOccupancy ==
  [][ \A l \in AllLocIds :
        ( /\ \E i \in DOMAIN locations : locations[i].id = l
          /\ \E i \in DOMAIN locations' : locations'[i].id = l
          /\ CapacityOf(locations', l) < CapacityOf(locations, l) )
          => \A d \in Dates : \A s \in PickSlotIds :
               Cardinality(ActiveInTriple(bookings', l, d, s)) <= CapacityOf(locations', l) ]_vars

\* C30: a step of the Add Location form that changes the stored list
\* appends one location to it and leaves the others as they were; a step of
\* the Delete dialog that changes the stored list takes the deleted location
\* out and leaves the others as they were.
C30_AddDeleteChangeOneLocation ==
  [][ \A t \in Tabs :
        /\ (tab[t].pc = "addLocation" /\ tab'[t].pc = "idle" /\ locations' # locations)
             => /\ Len(locations') = Len(locations) + 1
                /\ SubSeq(locations', 1, Len(locations)) = locations
        /\ (tab[t].pc = "deleteLocation" /\ tab'[t].pc = "idle" /\ locations' # locations)
             => locations' = SelectSeq(locations, LAMBDA l : l.id # tab[t].id) ]_vars

\* C26: the badge of a booking is not marked "Conflict" when the volunteer
\* (the same username) has no other booking on that date.
C26_OnlyBookingIsNoConflict ==
  \A t \in Tabs :
    (tab[t].pc = "badge" /\ tab[t].bid \in IdsOf(bookings))
      => LET a == Stored(bookings, tab[t].bid)
         IN (\A i \in DOMAIN bookings :
               (bookings[i].username = a.username /\ bookings[i].date = a.date)
                 => bookings[i].id = a.id)
              => tab[t].msg # "Conflict"

\* the two records are bookings of one person: the self-service record
\* carries the account's display name, the admin's the directory name
SamePerson(a, b) == toLowerCase(a.displayName) = toLowerCase(b.displayName)

\* C27: a step that persists an admin assignment without the admin having
\* confirmed a double-booking leaves it overlapping no active self-service
\* booking of the same person on that date.
C27_SelfServiceBookingsAreCompared ==
  [][ (forced' = forced)
        => \A i \in Created :
             bookings'[i].volunteerId # Undefined
               => \A k \in DOMAIN bookings :
                    ( /\ bookings[k].volunteerId = Undefined
                      /\ IsActive(bookings[k])
                      /\ bookings[k].date = bookings'[i].date
                      /\ SamePerson(bookings[k], bookings'[i]) )
                      => ~HalfOpenOverlap(slotRange(bookings'[i]), HoursOf(bookings[k])) ]_vars

====
